---------------------------- MODULE Spec2Model ----------------------------
(***************************************************************************)
(* A model of the PDF semantic converter (src/app).                        *)
(*                                                                         *)
(*   Spec      the job pipeline of main.py: upload_pdf registers a job,    *)
(*             process_pdf_task runs it phase by phase in the background,  *)
(*             get_status polls the shared TASK_STATUS map.                *)
(*   SpecDoc   the pure document functions: classify_blocks of semantic.py *)
(*             and generate_html / generate_json of renderer.py, applied   *)
(*             to every normalised document of a bounded family.           *)
(*   SpecRaw   the parse phase of one job on raw pages of the PDF decoder: *)
(*             extract_layout_from_pdf of parser.py normalises them, and   *)
(*             the document functions run on what it returns.              *)
(*                                                                         *)
(* Numbers are integers.  A Python float that is compared against a        *)
(* product with a decimal literal (0.85, 1.4, ...) is compared here by     *)
(* cross-multiplication; over the values the model draws this agrees with  *)
(* the IEEE arithmetic of the code.                                        *)
(***************************************************************************)
EXTENDS Integers, Sequences, FiniteSets, TLC

VARIABLES
    TASK_STATUS,    \* main.py:27   dict: job id -> status record
    pc,             \* position of each job's process_pdf_task
    upload,         \* the uploaded file stored for each job (main.py:89-92)
    results,        \* files process_pdf_task has written for each job
    started,        \* history: the phases each job has started, in order
    raised,         \* history: the exception that ended each job, if any
    response,       \* the last HTTP response sent
    raw_pages,      \* SpecRaw: the pages as the PDF decoder gives them
    parsed,         \* whether extract_layout_from_pdf has returned layout_data
    layout_data,    \* the document as extract_layout_from_pdf returned it
    semantic_data,  \* SpecDoc: the document object after classify_blocks
    first_labels,   \* SpecDoc: history: semantic_data after the first classify_blocks
    runs,           \* SpecDoc: number of classify_blocks calls so far
    html_output,    \* SpecDoc: result of generate_html
    json_output     \* SpecDoc: result of generate_json

jobVars == <<TASK_STATUS, pc, upload, results, started, raised, response>>
docVars == <<raw_pages, parsed, layout_data, semantic_data, first_labels, runs,
            html_output, json_output>>
vars == <<TASK_STATUS, pc, upload, results, started, raised, response,
          raw_pages, parsed, layout_data, semantic_data, first_labels, runs, html_output, json_output>>

Range(s) == {s[i] : i \in DOMAIN s}

Last(s) == s[Len(s)]

\* no value yet
NoData == <<>>

(***************************************************************************)
(* Bounds of the model.                                                    *)
(***************************************************************************)
MaxJobs == 2

Jobs == 1..MaxJobs

(***************************************************************************)
(*                      PART 1 - THE JOB PIPELINE                          *)
(***************************************************************************)

\* parser.py:173  default arguments of validate_pdf_constraints
max_pages == 50

max_size_mb == 100

\* An exception message: the literal text of the f-string and the values
\* interpolated into it.
Msg(text, args) == [text |-> text, args |-> args]

NoExc == [text |-> "", args |-> <<>>]

\* The uploaded files: size in whole MB, whether the decoder can open the
\* file, and its page count.
AllFiles == [size_mb : {1, max_size_mb + 1}, openable : BOOLEAN,
             page_count : {max_pages, max_pages + 1}]

\* The files drawn: a valid one, and one for each single defect.
Files == {f \in AllFiles :
            Cardinality({d \in {"size", "open", "pages"} :
                           \/ d = "size" /\ f.size_mb > max_size_mb
                           \/ d = "open" /\ ~f.openable
                           \/ d = "pages" /\ f.page_count > max_pages}) <= 1}

\* upload_pdf's content types
ContentTypes == {"application/pdf", "text/plain"}

\* Exceptions the environment can raise inside a phase (decoder errors,
\* import errors, I/O errors): str(e), one message standing for all of them.
EnvErrors == {Msg("OSError: No space left on device", <<>>)}

\* parser.py:181-185  the body of the try block: the exception it raises,
\* or NoExc.
ValidateTryBody(f) ==
    IF ~f.openable THEN Msg("cannot open file", <<>>)
    ELSE IF f.page_count > max_pages
         THEN Msg("Page count {} exceeds limit", <<f.page_count>>)
         ELSE NoExc

\* parser.py:173-189  the exception validate_pdf_constraints raises, or NoExc.
\* size_mb is formatted with two decimals (hundredths of a MB).
validate_pdf_constraints(f) ==
    IF f.size_mb > max_size_mb
    THEN Msg("File size {}MB exceeds limit", <<f.size_mb * 100>>)
    ELSE IF ValidateTryBody(f) # NoExc
         THEN Msg("Invalid or corrupt PDF", <<>>)
         ELSE NoExc

\* An assignment that rebinds the map to one holding the job's record alone.
SetRecordAlone(ts, j, rec) == [k \in {j} |-> rec]

\* dict assignment TASK_STATUS[task_id] = rec
SetRecord(ts, j, rec) ==
    [k \in (DOMAIN ts) \cup {j} |-> IF k = j THEN rec ELSE ts[k]]

\* main.py:95
QueuedRecord == [status |-> "queued"]

\* main.py:31, 41, 46, 52
ProcessingRecord(step) == [status |-> "processing", step |-> step]

\* main.py:69-74
CompletedRecord(j) ==
    [status |-> "completed", step |-> "done",
     result_html |-> [job |-> j, kind |-> "html"],
     result_json |-> [job |-> j, kind |-> "json"]]

\* A failure record that drops the captured message.
FailedRecordGeneric(e) == [status |-> "failed", error |-> Msg("processing failed", <<>>)]

\* main.py:77
FailedRecord(e) == [status |-> "failed", error |-> e]

\* main.py:75-77  the except clause: the job's record becomes the failure
\* record and process_pdf_task returns.
Except(j, phase, e) ==
    /\ TASK_STATUS' = SetRecord(TASK_STATUS, j, FailedRecord(e))
    /\ raised' = [raised EXCEPT ![j] = [phase |-> phase, error |-> e]]
    /\ pc' = [pc EXCEPT ![j] = "done"]

\* main.py:41, 46, 52  TASK_STATUS[task_id]["step"] = step; the next phase starts
EnterPhase(j, step, next) ==
    /\ TASK_STATUS' = SetRecord(TASK_STATUS, j, [TASK_STATUS[j] EXCEPT !.step = step])
    /\ started' = [started EXCEPT ![j] = Append(@, step)]
    /\ pc' = [pc EXCEPT ![j] = next]

\* An upload that registers the job even when its id is already in use.
upload_pdf_reuse(j, ct, f) ==
    /\ ct = "application/pdf"
    /\ pc[j] # "queued"
    /\ upload' = [upload EXCEPT ![j] = f]
    /\ TASK_STATUS' = SetRecord(TASK_STATUS, j, QueuedRecord)
    /\ pc' = [pc EXCEPT ![j] = "queued"]
    /\ response' = [code |-> 200, body |-> [task_id |-> j, status |-> "queued"]]
    /\ UNCHANGED <<results, started, raised, docVars>>

\* main.py:83-98  upload_pdf: a wrong content type is rejected with 400;
\* otherwise a fresh uuid4 job id j is drawn, the file is stored, the job is
\* registered as queued and process_pdf_task is scheduled.
upload_pdf(j, ct, f) ==
    \/ /\ ct # "application/pdf"
       /\ response' = [code |-> 400, body |-> [task_id |-> 0, status |-> "rejected"]]
       /\ UNCHANGED <<TASK_STATUS, pc, upload, results, started, raised, docVars>>
    \/ /\ ct = "application/pdf"
       /\ j \notin DOMAIN TASK_STATUS
       /\ pc[j] = "none"
       /\ upload' = [upload EXCEPT ![j] = f]
       /\ TASK_STATUS' = SetRecord(TASK_STATUS, j, QueuedRecord)
       /\ pc' = [pc EXCEPT ![j] = "queued"]
       /\ response' = [code |-> 200, body |-> [task_id |-> j, status |-> "queued"]]
       /\ UNCHANGED <<results, started, raised, docVars>>

\* main.py:100-102  get_status
get_status(j) ==
    /\ response' = [code |-> 200,
                    body |-> IF j \in DOMAIN TASK_STATUS THEN TASK_STATUS[j]
                             ELSE [status |-> "not_found"]]
    /\ UNCHANGED <<TASK_STATUS, pc, upload, results, started, raised, docVars>>

\* main.py:29-31  process_pdf_task starts: status processing, step validating
task_begin(j) ==
    /\ pc[j] = "queued"
    /\ TASK_STATUS' = SetRecord(TASK_STATUS, j, ProcessingRecord("validating"))
    /\ started' = [started EXCEPT ![j] = Append(@, "validating")]
    /\ pc' = [pc EXCEPT ![j] = "validating"]
    /\ UNCHANGED <<upload, results, raised, response, docVars>>

\* main.py:34-41  phase 1: the image directory is made (the environment may
\* fail it), the file is validated, then step parsing
task_validate(j) ==
    /\ pc[j] = "validating"
    /\ \/ \E e \in EnvErrors : Except(j, "validating", e) /\ UNCHANGED started
       \/ /\ validate_pdf_constraints(upload[j]) # NoExc
          /\ Except(j, "validating", validate_pdf_constraints(upload[j]))
          /\ UNCHANGED started
       \/ /\ validate_pdf_constraints(upload[j]) = NoExc
          /\ EnterPhase(j, "parsing", "parsing")
          /\ UNCHANGED raised
    /\ UNCHANGED <<upload, results, response, docVars>>

\* main.py:43-46  phase 2: extract_layout_from_pdf, then step analyzing
task_parse(j) ==
    /\ pc[j] = "parsing"
    /\ \/ \E e \in EnvErrors : Except(j, "parsing", e) /\ UNCHANGED started
       \/ EnterPhase(j, "analyzing", "analyzing") /\ UNCHANGED raised
    /\ UNCHANGED <<upload, results, response, docVars>>

\* main.py:47-52  phase 3: classify_blocks, then step generating
task_analyze(j) ==
    /\ pc[j] = "analyzing"
    /\ \/ \E e \in EnvErrors : Except(j, "analyzing", e) /\ UNCHANGED started
       \/ EnterPhase(j, "generating", "generating") /\ UNCHANGED raised
    /\ UNCHANGED <<upload, results, response, docVars>>

\* main.py:53-55  phase 4: generate_html and generate_json
task_generate(j) ==
    /\ pc[j] = "generating"
    /\ \/ \E e \in EnvErrors : Except(j, "generating", e) /\ UNCHANGED started
       \/ /\ pc' = [pc EXCEPT ![j] = "save_html"]
          /\ started' = [started EXCEPT ![j] = Append(@, "save_html")]
          /\ UNCHANGED <<TASK_STATUS, raised>>
    /\ UNCHANGED <<upload, results, response, docVars>>

\* main.py:58-67  one of the three output writes; a failing open/write
\* raises and leaves no file recorded
task_save(j, here, kind, next) ==
    /\ pc[j] = here
    /\ \/ /\ \E e \in EnvErrors : Except(j, here, e)
          /\ UNCHANGED <<results, started>>
       \/ /\ results' = [results EXCEPT ![j] = @ \cup {kind}]
          /\ pc' = [pc EXCEPT ![j] = next]
          /\ started' = [started EXCEPT ![j] = Append(@, next)]
          /\ UNCHANGED <<TASK_STATUS, raised>>
    /\ UNCHANGED <<upload, response, docVars>>

\* main.py:58-59
task_save_html(j) == task_save(j, "save_html", "html", "save_json")

\* main.py:61-62
task_save_json(j) == task_save(j, "save_json", "json", "save_intermediate")

\* main.py:65-67
task_save_intermediate(j) == task_save(j, "save_intermediate", "intermediate", "completing")

\* A completion that is reached as soon as the markup file is written.
task_complete_early(j) ==
    /\ pc[j] \in {"save_json", "completing"}
    /\ TASK_STATUS' = SetRecord(TASK_STATUS, j, CompletedRecord(j))
    /\ pc' = [pc EXCEPT ![j] = "done"]
    /\ UNCHANGED <<upload, results, started, raised, response, docVars>>

\* main.py:69-74  the record becomes completed
task_complete(j) ==
    /\ pc[j] = "completing"
    /\ TASK_STATUS' = SetRecord(TASK_STATUS, j, CompletedRecord(j))
    /\ pc' = [pc EXCEPT ![j] = "done"]
    /\ UNCHANGED <<upload, results, started, raised, response, docVars>>

(***************************************************************************)
(*                 PART 2 - THE DOCUMENT FUNCTIONS                         *)
(*                                                                         *)
(* A document is the list extract_layout_from_pdf returns (parser.py:161): *)
(* pages with page, width, height, blocks and drawings.  A block carries   *)
(* type (0 text, 1 image), bbox, lines (the empty list when the key is     *)
(* absent, as block.get("lines", []) reads it), src (image_info["src"],    *)
(* "" for a text block or a failed save; image_info["bbox"] is the block's *)
(* bbox, parser.py:115), and label / semantic_type (NoLabel while the key  *)
(* is absent).  A line is its list of spans; a span has text (a sequence   *)
(* of characters) and size.                                                *)
(***************************************************************************)
MaxPages == 2

MaxBlocks == 2

NoLabel == "(absent)"

\* ---- Python string operations on sequences of characters ----

Whitespace == {" ", "\n", "\t"}

\* str.lstrip()
RECURSIVE LStrip(_)
LStrip(s) == IF s # <<>> /\ Head(s) \in Whitespace THEN LStrip(Tail(s)) ELSE s

\* str.rstrip()
RECURSIVE RStrip(_)
RStrip(s) ==
    IF s # <<>> /\ s[Len(s)] \in Whitespace THEN RStrip(SubSeq(s, 1, Len(s) - 1)) ELSE s

\* str.strip()
Strip(s) == RStrip(LStrip(s))

\* len(str.split()): the number of maximal runs of non-whitespace
WordCount(s) ==
    Cardinality({i \in DOMAIN s :
                   s[i] \notin Whitespace /\ (i = 1 \/ s[i - 1] \in Whitespace)})

\* str.startswith(prefix)
StartsWith(s, p) == Len(s) >= Len(p) /\ SubSeq(s, 1, Len(p)) = p

\* semantic.py:176  the list-item prefixes; U+2022 and U+2013 are written
\* by name
ListPrefixes == {<<"bullet">>, <<"-">>, <<"endash">>, <<"1", ".">>, <<"2", ".">>, <<"3", ".">>}

RECURSIVE SumSeq(_)
SumSeq(s) == IF s = <<>> THEN 0 ELSE Head(s) + SumSeq(Tail(s))

RECURSIVE Flatten(_)
Flatten(ss) == IF ss = <<>> THEN <<>> ELSE Head(ss) \o Flatten(Tail(ss))

Abs(x) == IF x < 0 THEN -x ELSE x

\* ---- semantic.py: SemanticProcessor._heuristic_classification ----

\* all spans of a block, in order (the nested loops over lines and spans)
BlockSpans(block) == Flatten(block.lines)

\* semantic.py:77-88  the sizes one page adds to font_sizes; every
\* normalised block has a bbox and every normalised span a size
PageSpanSizes(blocks) ==
    Flatten([i \in DOMAIN blocks |->
               [k \in DOMAIN BlockSpans(blocks[i]) |-> BlockSpans(blocks[i])[k].size]])

\* font_sizes.count(v)
Count(fs, v) == Cardinality({i \in DOMAIN fs : fs[i] = v})

\* The place of an integer-valued size in the iteration order of
\* set(font_sizes): CPython keeps up to four such keys in an eight-slot
\* table at slot hash & 7, and iterates the slots in order.
SetSlot(v) == v % 8

\* semantic.py:93  max(set(font_sizes), key=font_sizes.count): the first
\* size, in the set's iteration order, of the highest count
mode_font(fs) ==
    CHOOSE v \in Range(fs) :
        \A w \in Range(fs) :
            \/ Count(fs, w) < Count(fs, v)
            \/ Count(fs, w) = Count(fs, v) /\ SetSlot(v) <= SetSlot(w)

\* semantic.py:94
max_font(fs) == CHOOSE v \in Range(fs) : \A w \in Range(fs) : w <= v

\* A font_sizes list that is created once, before the loop over the pages.
FontSizesKept(carried) == carried

\* semantic.py:74  font_sizes = [] at the start of every page
FontSizesInit(carried) == <<>>

\* semantic.py:93-96  the statistics of one page, computed once before its
\* blocks are classified; fs is the page's font_sizes
PageStats(page, fs) ==
    [mode_font |-> mode_font(fs), max_font |-> max_font(fs),
     page_height |-> page.height, page_width |-> page.width]

\* semantic.py:119-124  text: the span texts, each followed by a space, stripped
BlockText(block) ==
    Strip(Flatten([k \in DOMAIN BlockSpans(block) |->
                     BlockSpans(block)[k].text \o <<" ">>]))

\* semantic.py:119-121  sizes
BlockSizes(block) == [k \in DOMAIN BlockSpans(block) |-> BlockSpans(block)[k].size]

\* semantic.py:100-132  the quantities derived for one block before the
\* rules.  avg_size is sum_sizes / n_sizes and center_ratio is
\* off_center / (2 * page_width); the rules compare them by cross-multiplication.
BlockFacts(block, st) ==
    [text |-> BlockText(block),
     sum_sizes |-> SumSeq(BlockSizes(block)),
     n_sizes |-> Len(BlockSizes(block)),
     y0 |-> block.bbox[2],
     block_height |-> block.bbox[4] - block.bbox[2],
     block_width |-> block.bbox[3] - block.bbox[1],
     off_center |-> Abs(block.bbox[1] + block.bbox[3] - st.page_width),
     line_count |-> Len(block.lines),
     word_count |-> WordCount(BlockText(block))]

\* semantic.py:135-139  avg_size >= max_font * 0.85 and center_ratio < 0.15
\* and y0 < page_height * 0.25
MainTitle(f, st) ==
    /\ 100 * f.sum_sizes >= 85 * st.max_font * f.n_sizes
    /\ 100 * f.off_center < 15 * 2 * st.page_width
    /\ 100 * f.y0 < 25 * st.page_height

\* semantic.py:145-149  avg_size > mode_font * 1.4 and word_count <= 10 and
\* block_height < page_height * 0.08
SectionHeading(f, st) ==
    /\ 10 * f.sum_sizes > 14 * st.mode_font * f.n_sizes
    /\ f.word_count <= 10
    /\ 100 * f.block_height < 8 * st.page_height

\* semantic.py:155-159  mode_font * 1.2 < avg_size <= mode_font * 1.4 and
\* word_count <= 15
SubHeading(f, st) ==
    /\ 10 * f.sum_sizes > 12 * st.mode_font * f.n_sizes
    /\ 10 * f.sum_sizes <= 14 * st.mode_font * f.n_sizes
    /\ f.word_count <= 15

\* semantic.py:165-170  word_count > 5 and line_count >= 4 and
\* block_width > page_width * 0.6 and avg_size <= mode_font * 1.05
TableBlock(f, st) ==
    /\ f.word_count > 5
    /\ f.line_count >= 4
    /\ 10 * f.block_width > 6 * st.page_width
    /\ 100 * f.sum_sizes <= 105 * st.mode_font * f.n_sizes

\* semantic.py:176  text.lstrip().startswith(prefixes)
ListItem(f, st) ==
    \E p \in ListPrefixes : StartsWith(LStrip(f.text), p)

\* semantic.py:182-185  avg_size < mode_font * 0.85 and y0 > page_height * 0.8
Footnote(f, st) ==
    /\ 100 * f.sum_sizes < 85 * st.mode_font * f.n_sizes
    /\ 10 * f.y0 > 8 * st.page_height

Labelled(block, label, sem) == [block EXCEPT !.label = label, !.semantic_type = sem]

\* A cascade that tries the section-heading rule before the main-title rule
\* and the list-item rule before the table rule.
RuleCascadeReordered(block, f, st) ==
    IF SectionHeading(f, st) THEN Labelled(block, "heading", "h2")
    ELSE IF MainTitle(f, st) THEN Labelled(block, "heading", "h1")
    ELSE IF SubHeading(f, st) THEN Labelled(block, "heading", "h3")
    ELSE IF ListItem(f, st) THEN Labelled(block, "list_item", "li")
    ELSE IF TableBlock(f, st) THEN Labelled(block, "table", "table")
    ELSE IF Footnote(f, st) THEN Labelled(block, "footnote", "small")
    ELSE Labelled(block, "paragraph", "p")

\* semantic.py:134-192  rules 1 to 7, each ending in continue
RuleCascade(block, f, st) ==
    IF MainTitle(f, st) THEN Labelled(block, "heading", "h1")
    ELSE IF SectionHeading(f, st) THEN Labelled(block, "heading", "h2")
    ELSE IF SubHeading(f, st) THEN Labelled(block, "heading", "h3")
    ELSE IF TableBlock(f, st) THEN Labelled(block, "table", "table")
    ELSE IF ListItem(f, st) THEN Labelled(block, "list_item", "li")
    ELSE IF Footnote(f, st) THEN Labelled(block, "footnote", "small")
    ELSE Labelled(block, "paragraph", "p")

\* A classification that reads the label a text block already has and
\* treats a labelled block as body text.
ClassifyBlockKeep(block, st) ==
    IF block.type = 1 THEN Labelled(block, "image", "image")
    ELSE IF block.label # NoLabel THEN Labelled(block, "paragraph", "p")
    ELSE IF BlockSizes(block) = <<>> \/ BlockText(block) = <<>>
         THEN Labelled(block, "unknown", "unknown")
         ELSE RuleCascade(block, BlockFacts(block, st), st)

\* A classification that sends an image block with lines down the text rules.
ClassifyBlockImageAsText(block, st) ==
    IF block.type = 1 /\ block.lines = <<>> THEN Labelled(block, "image", "image")
    ELSE IF BlockSizes(block) = <<>> \/ BlockText(block) = <<>>
         THEN Labelled(block, "unknown", "unknown")
         ELSE RuleCascade(block, BlockFacts(block, st), st)

\* semantic.py:99-192  the body of the loop over the blocks of one page
ClassifyBlock(block, st) ==
    IF block.type = 1 THEN Labelled(block, "image", "image")
    ELSE IF BlockSizes(block) = <<>> \/ BlockText(block) = <<>>
         THEN Labelled(block, "unknown", "unknown")
         ELSE RuleCascade(block, BlockFacts(block, st), st)

\* semantic.py:68-192  the body of the loop over the pages: a page with no
\* blocks or no span is skipped
ClassifyPage(page, fs) ==
    IF page.blocks = <<>> \/ fs = <<>> THEN page
    ELSE LET st == PageStats(page, fs)
         IN [page EXCEPT !.blocks = [i \in DOMAIN page.blocks |->
                                       ClassifyBlock(page.blocks[i], st)]]

\* the font_sizes list of the page at the head of pages; a page with no
\* blocks is left before line 74
PageFontSizes(page, carried) ==
    IF page.blocks = <<>> THEN carried
    ELSE FontSizesInit(carried) \o PageSpanSizes(page.blocks)

RECURSIVE ClassifyPages(_, _)
ClassifyPages(pages, carried) ==
    IF pages = <<>> THEN <<>>
    ELSE <<ClassifyPage(Head(pages), PageFontSizes(Head(pages), carried))>>
         \o ClassifyPages(Tail(pages), PageFontSizes(Head(pages), carried))

\* semantic.py:62-194
heuristic_classification(data) == ClassifyPages(data, <<>>)

\* semantic.py:38-59  both branches return the heuristic classification
classify_blocks(data) == heuristic_classification(data)

\* ---- renderer.py: ContentRenderer ----

\* renderer.py:4  CSS_SCALE = 96.0 / 72.0
CSS_SCALE_NUM == 96

CSS_SCALE_DEN == 72

\* n / m rounded to the nearest integer
RoundDiv(n, m) == (2 * n + m) \div (2 * m)

RECURSIVE Pow10(_)
Pow10(d) == IF d = 0 THEN 1 ELSE 10 * Pow10(d - 1)

\* f"{v * CSS_SCALE:.<d>f}": the scaled value in units of 10^-d px
Px(v, d) == RoundDiv(v * CSS_SCALE_NUM * Pow10(d), CSS_SCALE_DEN)

Decl(prop, val) == [prop |-> prop, val |-> val]

\* An image style that leaves the height out.
abs_style_no_height(bbox, image) ==
    IF bbox = <<>> THEN <<Decl("display", "none")>>
    ELSE <<Decl("left", Px(bbox[1], 2)), Decl("top", Px(bbox[2], 2)),
           Decl("width", Px(bbox[3] - bbox[1], 2))>>

\* A style that places the block at its PDF points, without the scale.
abs_style_unscaled(bbox, image) ==
    IF bbox = <<>> THEN <<Decl("display", "none")>>
    ELSE <<Decl("left", 100 * bbox[1]), Decl("top", 100 * bbox[2]),
           Decl("width", 100 * (bbox[3] - bbox[1]))>>
         \o (IF image THEN <<Decl("height", 100 * (bbox[4] - bbox[2]))>> ELSE <<>>)

\* renderer.py:101-114  _abs_style: the declarations of the style string
abs_style(bbox, image) ==
    IF bbox = <<>> THEN <<Decl("display", "none")>>
    ELSE IF image
         THEN <<Decl("left", Px(bbox[1], 2)), Decl("top", Px(bbox[2], 2)),
                Decl("width", Px(bbox[3] - bbox[1], 2)),
                Decl("height", Px(bbox[4] - bbox[2], 2))>>
         ELSE <<Decl("left", Px(bbox[1], 2)), Decl("top", Px(bbox[2], 2)),
                Decl("width", Px(bbox[3] - bbox[1], 2))>>

\* " ".join(parts)
RECURSIVE Join(_)
Join(parts) ==
    IF parts = <<>> THEN <<>>
    ELSE IF Len(parts) = 1 THEN Head(parts)
         ELSE Head(parts) \o <<" ">> \o Join(Tail(parts))

\* renderer.py:116-121  _extract_text
extract_text(block) ==
    Join([k \in DOMAIN BlockSpans(block) |-> BlockSpans(block)[k].text])

\* html.escape(text) with quote=True
EscapeChar(c) ==
    CASE c = "&" -> <<"&", "a", "m", "p", ";">>
      [] c = "<" -> <<"&", "l", "t", ";">>
      [] c = ">" -> <<"&", "g", "t", ";">>
      [] c = "\"" -> <<"&", "q", "u", "o", "t", ";">>
      [] c = "'" -> <<"&", "#", "x", "2", "7", ";">>
      [] OTHER -> <<c>>

html_escape(text) == Flatten([k \in DOMAIN text |-> EscapeChar(text[k])])

\* renderer.py:123-152  _render_vectors.  A drawing item is the tuple
\* <<t, payload...>>; a colour is an RGB triple in hundredths, or <<>> for None.
ItemCommands(item) ==
    IF item = <<>> THEN <<>>
    ELSE IF item[1] = "l"
         THEN <<[op |-> "M", at |-> <<item[2]>>], [op |-> "L", at |-> <<item[3]>>]>>
    ELSE IF item[1] = "re"
         THEN <<[op |-> "M", at |-> <<[x |-> item[2].x0, y |-> item[2].y0]>>],
                [op |-> "L", at |-> <<[x |-> item[2].x1, y |-> item[2].y0]>>],
                [op |-> "L", at |-> <<[x |-> item[2].x1, y |-> item[2].y1]>>],
                [op |-> "L", at |-> <<[x |-> item[2].x0, y |-> item[2].y1]>>],
                [op |-> "Z", at |-> <<>>]>>
    ELSE IF item[1] = "c"
         THEN <<[op |-> "M", at |-> <<item[2]>>],
                [op |-> "C", at |-> <<item[3], item[4], item[5]>>]>>
    ELSE <<>>

\* A path that is emitted for a drawing without commands too.
DrawingPathAlways(d) ==
    LET color == IF d.color = <<>> THEN <<0, 0, 0>> ELSE d.color
        d_cmd == Flatten([k \in DOMAIN d.items |-> ItemCommands(d.items[k])])
    IN <<[d |-> d_cmd,
          stroke |-> [k \in 1..3 |-> (color[k] * 255) \div 100],
          stroke_width |-> d.width, fill |-> "none"]>>

\* renderer.py:125-149  one turn of the loop over the drawings: the path
\* appended, if any
DrawingPath(d) ==
    LET color == IF d.color = <<>> THEN <<0, 0, 0>> ELSE d.color
        d_cmd == Flatten([k \in DOMAIN d.items |-> ItemCommands(d.items[k])])
    IN IF d_cmd = <<>> THEN <<>>
       ELSE <<[d |-> d_cmd,
               stroke |-> [k \in 1..3 |-> (color[k] * 255) \div 100],
               stroke_width |-> d.width, fill |-> "none"]>>

render_vectors(drawings, page) ==
    [el |-> "svg", width |-> Px(page.width, 2), height |-> Px(page.height, 2),
     viewBox |-> <<0, 0, page.width, page.height>>,
     paths |-> Flatten([k \in DOMAIN drawings |-> DrawingPath(drawings[k])])]

\* renderer.py:38-45  the element of an image block: none without a src
ImageElement(block) ==
    IF block.src # ""
    THEN <<[el |-> "img", src |-> block.src, style |-> abs_style(block.bbox, TRUE)]>>
    ELSE <<>>

\* renderer.py:52-60  the size of the first span of the first line, or 11.0
FirstSpanSize(block) ==
    IF block.lines # <<>> /\ block.lines[1] # <<>> THEN block.lines[1][1].size ELSE 11

\* renderer.py:71-78  the tag wrapped around the text
InnerTag(block) ==
    LET label == IF block.label = NoLabel THEN "paragraph" ELSE block.label
        sem == IF block.semantic_type = NoLabel THEN "p" ELSE block.semantic_type
    IN IF label = "heading"
       THEN (IF sem \in {"h1", "h2", "h3", "h4", "h5", "h6"} THEN sem ELSE "h2")
       ELSE "p"

TextElementOf(block) ==
    [el |-> "text-block",
     style |-> abs_style(block.bbox, FALSE) \o <<Decl("font-size", Px(FirstSpanSize(block), 1))>>,
     tag |-> InnerTag(block),
     text |-> html_escape(extract_text(block))]

\* A text element that is emitted for blank text too.
TextElementAlways(block) == <<TextElementOf(block)>>

\* renderer.py:47-82  the element of a text block: none for blank text
TextElement(block) ==
    IF Strip(extract_text(block)) = <<>> THEN <<>> ELSE <<TextElementOf(block)>>

\* renderer.py:35-82  the body of the loop over the blocks
BlockElement(block) ==
    IF block.type = 1 THEN ImageElement(block) ELSE TextElement(block)

\* renderer.py:18-84  the lines appended for one page
PageElements(page) ==
    <<[el |-> "pdf-page", style |-> <<Decl("width", Px(page.width, 2)),
                                      Decl("height", Px(page.height, 2))>>]>>
    \o (IF page.drawings # <<>> THEN <<render_vectors(page.drawings, page)>> ELSE <<>>)
    \o Flatten([i \in DOMAIN page.blocks |-> BlockElement(page.blocks[i])])
    \o <<[el |-> "/pdf-page"]>>

\* renderer.py:8-87  generate_html: html_out, the list of lines joined at the end
generate_html(data) ==
    <<[el |-> "doctype"], [el |-> "html"], [el |-> "head"], [el |-> "meta"],
      [el |-> "link"], [el |-> "/head"], [el |-> "body"]>>
    \o Flatten([i \in DOMAIN data |-> PageElements(data[i])])
    \o <<[el |-> "/body/html"]>>

\* renderer.py:89-99  generate_json
generate_json(data) ==
    [meta |-> [version |-> "1.0", generator |-> "PDF Semantic Converter"],
     pages |-> data]

\* ---- the documents drawn ----

\* a page of 595 x 842 points
PageSize == [width |-> 595, height |-> 842]

\* centred, in the top quarter, low and wide
BBoxTop == <<72, 72, 522, 100>>

\* off centre, mid page, low and narrow
BBoxSide == <<72, 300, 272, 320>>

\* centred, mid page, tall and wide
BBoxMid == <<72, 300, 522, 400>>

\* off centre, in the bottom fifth, tall and narrow
BBoxFoot == <<72, 700, 272, 780>>

TextBlock(bbox, n, text, size) ==
    [type |-> 0, bbox |-> bbox,
     lines |-> [i \in 1..n |-> <<[text |-> text, size |-> size]>>],
     src |-> "", label |-> NoLabel, semantic_type |-> NoLabel]

ImageBlock(bbox, src, lines) ==
    [type |-> 1, bbox |-> bbox, lines |-> lines,
     src |-> src, label |-> NoLabel, semantic_type |-> NoLabel]

\* text blocks: a one-word line at the top, at the side and at the foot and a
\* four-line block of dashed items, each in two font sizes (points); a block
\* of blank text; a block without lines
TextBlocks ==
    {TextBlock(BBoxTop, 1, <<"a">>, sz) : sz \in {10, 15}}
    \cup {TextBlock(BBoxSide, 1, <<"a">>, sz) : sz \in {10, 15}}
    \cup {TextBlock(BBoxMid, 4, <<"-", " ", "a">>, sz) : sz \in {10, 15}}
    \cup {TextBlock(BBoxFoot, 1, <<"a">>, sz) : sz \in {8, 10}}
    \cup {TextBlock(BBoxSide, 1, <<" ">>, 10), TextBlock(BBoxSide, 0, <<>>, 10)}

\* image blocks: saved, not saved, and saved with text-like lines
ImageBlocks ==
    {ImageBlock(BBoxMid, "/static/images/p0_img0.png", <<>>),
     ImageBlock(BBoxMid, "", <<>>),
     ImageBlock(BBoxTop, "/static/images/p0_img1.png", <<<<[text |-> <<"a">>, size |-> 15]>>>>)}

Blocks == TextBlocks \cup ImageBlocks

BlockLists(n) == UNION {[1..k -> Blocks] : k \in 0..n}

\* the lists of at most np block lists holding at most nb blocks in all
RECURSIVE PageLists(_, _)
PageLists(np, nb) ==
    IF np = 0 THEN {<<>>}
    ELSE {<<>>} \cup UNION {{<<bl>> \o rest : rest \in PageLists(np - 1, nb - Len(bl))} :
                              bl \in BlockLists(nb)}

\* parser.py:161-167
MakePage(i, blocks) ==
    [page |-> i, width |-> PageSize.width, height |-> PageSize.height,
     blocks |-> blocks, drawings |-> <<>>]

Docs == {[i \in DOMAIN pl |-> MakePage(i, pl[i])] : pl \in PageLists(MaxPages, MaxBlocks)}

NoJson == [meta |-> [version |-> "", generator |-> ""], pages |-> <<>>]

(***************************************************************************)
(*              PART 3 - NORMALISATION OF THE RAW PAGES                    *)
(*                                                                         *)
(* extract_layout_from_pdf (parser.py) reads what the PDF decoder gives    *)
(* for each page: the text dictionary with its blocks and the list of      *)
(* drawings.  A Python dict is a record whose DOMAIN is the set of keys    *)
(* present; None and the empty list, which the code tests alike with       *)
(* "not v", are both <<>>.  A point or rect carries the shape the code     *)
(* can tell apart: an object with coordinate attributes, a list or tuple,  *)
(* a dict, or anything else.  A drawing item is the tuple <<t, payload>>.  *)
(***************************************************************************)
MaxDrawings == 2

MaxItems == 2

None == <<>>

\* d.get(k, dflt)
Get(d, k, dflt) == IF k \in DOMAIN d THEN d[k] ELSE dflt

\* str(e) of the IndexError of item[n] past the end of a tuple
IndexError == Msg("tuple index out of range", <<>>)

\* parser.py:23-30  safe_point
safe_point(p) ==
    IF p.shape = "object" THEN [x |-> p.x, y |-> p.y]
    ELSE IF p.shape = "sequence" /\ Len(p.v) >= 2 THEN [x |-> p.v[1], y |-> p.v[2]]
    ELSE IF p.shape = "dict" THEN [x |-> Get(p.m, "x", 0), y |-> Get(p.m, "y", 0)]
    ELSE [x |-> 0, y |-> 0]

\* parser.py:32-48  safe_rect: always [x0, y0, x1, y1]
safe_rect(r) ==
    IF r.shape = "object" THEN <<r.x0, r.y0, r.x1, r.y1>>
    ELSE IF r.shape = "dict"
         THEN <<Get(r.m, "x0", 0), Get(r.m, "y0", 0), Get(r.m, "x1", 0), Get(r.m, "y1", 0)>>
    ELSE IF r.shape = "sequence" /\ Len(r.v) >= 4 THEN SubSeq(r.v, 1, 4)
    ELSE <<0, 0, 0, 0>>

\* the payload positions item[1..n] the branch of item kind t reads
PayloadRead(t) ==
    IF t = "l" THEN 2 ELSE IF t = "re" THEN 1 ELSE IF t = "c" THEN 4 ELSE 0

\* parser.py:129-151  one turn of the loop over the items of a drawing: the
\* items appended to clean_items, or the exception raised.  An empty item is
\* skipped and an item of another kind is dropped; item[n] raises IndexError
\* when the tuple is shorter than the branch reads.
clean_item(item) ==
    IF item = <<>> THEN [exc |-> NoExc, items |-> <<>>]
    ELSE IF Len(item) < 1 + PayloadRead(item[1]) THEN [exc |-> IndexError, items |-> <<>>]
    ELSE IF item[1] = "l"
         THEN [exc |-> NoExc, items |-> <<<<"l", safe_point(item[2]), safe_point(item[3])>>>>]
    ELSE IF item[1] = "re"
         THEN LET rect == safe_rect(item[2])
              IN [exc |-> NoExc,
                  items |-> <<<<"re", [x0 |-> rect[1], y0 |-> rect[2],
                                       x1 |-> rect[3], y1 |-> rect[4]]>>>>]
    ELSE IF item[1] = "c"
         THEN [exc |-> NoExc,
               items |-> <<<<"c", safe_point(item[2]), safe_point(item[3]),
                             safe_point(item[4]), safe_point(item[5])>>>>]
    ELSE [exc |-> NoExc, items |-> <<>>]

\* the first exception of a list of results, or NoExc
FirstExc(rs) ==
    IF \E k \in DOMAIN rs : rs[k].exc # NoExc
    THEN rs[CHOOSE k \in DOMAIN rs :
               /\ rs[k].exc # NoExc
               /\ \A m \in 1..(k - 1) : rs[m].exc = NoExc].exc
    ELSE NoExc

\* parser.py:127-159  one turn of the loop over the drawings of a page
clean_drawing(draw) ==
    LET raw == Get(draw, "items", <<>>)
        rs == [k \in DOMAIN raw |-> clean_item(raw[k])]
    IN [exc |-> FirstExc(rs),
        drawing |-> [items |-> Flatten([k \in DOMAIN rs |-> rs[k].items]),
                     color |-> Get(draw, "color", None),
                     fill |-> Get(draw, "fill", None),
                     width |-> Get(draw, "width", 1),
                     rect |-> safe_rect(Get(draw, "rect", [shape |-> "None"]))]]

\* parser.py:73-98  the spans of a line: text defaults to "", size to 0
clean_line(line) ==
    LET spans == Get(line, "spans", <<>>)
    IN [k \in DOMAIN spans |-> [text |-> Get(spans[k], "text", <<>>),
                                size |-> Get(spans[k], "size", 0)]]

\* parser.py:58-121  one turn of the loop over the blocks of a page.  The
\* bytes of an image block are written to the job's image directory; a
\* failing write is caught and leaves src empty.
clean_block(block, save_ok) ==
    LET b_type == Get(block, "type", -1)
        b_bbox == IF Get(block, "bbox", None) = <<>> THEN <<0, 0, 0, 0>> ELSE block.bbox
        lines == Get(block, "lines", <<>>)
    IN [type |-> b_type, bbox |-> b_bbox,
        lines |-> IF b_type = 0 THEN [k \in DOMAIN lines |-> clean_line(lines[k])] ELSE <<>>,
        src |-> IF b_type = 1 /\ "image" \in DOMAIN block /\ save_ok
                THEN "/static/images/p0_img0.png" ELSE "",
        label |-> NoLabel, semantic_type |-> NoLabel]

\* parser.py:52-167  one turn of the loop over the pages
clean_page(i, page, save_ok) ==
    LET blocks == Get(page.dict, "blocks", <<>>)
        ds == [k \in DOMAIN page.drawings |-> clean_drawing(page.drawings[k])]
    IN [exc |-> FirstExc(ds),
        page |-> [page |-> i, width |-> page.width, height |-> page.height,
                  blocks |-> [k \in DOMAIN blocks |-> clean_block(blocks[k], save_ok)],
                  drawings |-> [k \in DOMAIN ds |-> ds[k].drawing]]]

\* parser.py:6-170  extract_layout_from_pdf: the exception it lets through,
\* or NoExc and the layout_data it returns
extract_layout_from_pdf(doc, save_ok) ==
    LET ps == [i \in DOMAIN doc |-> clean_page(i, doc[i], save_ok)]
    IN [exc |-> FirstExc(ps),
        data |-> [i \in DOMAIN ps |-> ps[i].page]]

\* ---- the raw pages drawn ----

PObject(x, y) == [shape |-> "object", x |-> x, y |-> y]

PSequence(v) == [shape |-> "sequence", v |-> v]

PDict(m) == [shape |-> "dict", m |-> m]

POther == [shape |-> "other"]

RObject(x0, y0, x1, y1) == [shape |-> "object", x0 |-> x0, y0 |-> y0, x1 |-> x1, y1 |-> y1]

\* drawing items: none; lines, rects and a curve whose points and rects come
\* in each shape, well formed or not; a quad, which the code does not
\* know; a line and a rect without their payload
RawItems ==
    {<<>>,
     <<"l", PObject(10, 10), PSequence(<<50, 30>>)>>,
     <<"l", PDict([x |-> 10]), POther>>,
     <<"re", RObject(10, 10, 50, 30)>>,
     <<"re", PDict([x0 |-> 10, y1 |-> 30])>>,
     <<"re", PSequence(<<10, 10, 50>>)>>,
     <<"c", PObject(10, 10), PSequence(<<20>>), PDict([y |-> 30]), PObject(50, 30)>>,
     <<"qu", PSequence(<<10, 10, 50, 30>>)>>,
     <<"l", PObject(10, 10)>>,
     <<"re">>}

\* the items that are combined with each other: none, a line, the rect of
\* (10,10)-(50,30), a quad, a line without its second point
CoreItems ==
    {<<>>,
     <<"l", PObject(10, 10), PSequence(<<50, 30>>)>>,
     <<"re", RObject(10, 10, 50, 30)>>,
     <<"qu", PSequence(<<10, 10, 50, 30>>)>>,
     <<"l", PObject(10, 10)>>}

\* the item lists of at most n items: every item alone, the core items in
\* every combination
ItemLists(n) ==
    UNION {[1..k -> CoreItems] : k \in 0..n}
    \cup (IF n > 0 THEN {<<i>> : i \in RawItems} ELSE {})

\* a drawing as the decoder gives it, red and two points wide
RawDrawing(items) ==
    [items |-> items, color |-> <<100, 0, 0>>, width |-> 2,
     rect |-> RObject(10, 10, 50, 30)]

\* a drawing without colour, width and rect
BareDrawing(items) == [items |-> items]

\* a drawing without items
NoItemsDrawing == [width |-> 3]

ItemsOfAll(dl) == Flatten([k \in DOMAIN dl |-> Get(dl[k], "items", <<>>)])

\* the lists of at most nd drawings holding at most ni items in all; the
\* last drawing of a list also comes without its optional keys, and without
\* items
RECURSIVE DrawingLists(_, _)
DrawingLists(nd, ni) ==
    IF nd = 0 THEN {<<>>}
    ELSE {<<>>}
         \cup UNION {{<<RawDrawing(il)>> \o rest : rest \in DrawingLists(nd - 1, ni - Len(il))} :
                        il \in ItemLists(ni)}
         \cup {<<BareDrawing(il)>> : il \in ItemLists(ni)}
         \cup {<<NoItemsDrawing>>}

RawSpan == [text |-> <<"a">>, size |-> 10, bbox |-> BBoxTop]

\* block lists: a full text block; text blocks without bbox and size,
\* without lines, without spans, without text; an image block with and
\* without its bytes and bbox; a block without type
RawBlockLists ==
    {<<>>,
     <<[type |-> 0, bbox |-> BBoxTop, lines |-> <<[spans |-> <<RawSpan>>]>>]>>,
     <<[type |-> 0, lines |-> <<[spans |-> <<[text |-> <<"a">>]>>]>>]>>,
     <<[type |-> 0, bbox |-> BBoxSide]>>,
     <<[type |-> 0, bbox |-> BBoxSide, lines |-> <<[wmode |-> 0]>>]>>,
     <<[type |-> 0, bbox |-> BBoxSide, lines |-> <<[spans |-> <<[size |-> 10]>>]>>]>>,
     <<[type |-> 1, bbox |-> BBoxMid, image |-> "bytes"]>>,
     <<[type |-> 1]>>,
     <<[bbox |-> BBoxSide]>>,
     <<[type |-> 1, bbox |-> BBoxMid, image |-> "bytes"],
       [type |-> 0, bbox |-> BBoxTop, lines |-> <<[spans |-> <<RawSpan>>]>>]>>}

RawPage(blocks, drawings) ==
    [width |-> PageSize.width, height |-> PageSize.height,
     dict |-> [blocks |-> blocks], drawings |-> drawings]

\* a page whose text dictionary has no blocks key
RawPageNoBlocks(drawings) ==
    [width |-> PageSize.width, height |-> PageSize.height,
     dict |-> <<>>, drawings |-> drawings]

\* the documents drawn: none; one page of blocks; one page of drawings; a
\* page of text followed by a page of at most one drawing of one item
RawDocs ==
    {<<>>}
    \cup {<<RawPage(bl, <<>>)>> : bl \in RawBlockLists}
    \cup {<<RawPageNoBlocks(dl)>> : dl \in DrawingLists(MaxDrawings, MaxItems)}
    \cup {<<RawPage(<<[type |-> 0, bbox |-> BBoxTop, lines |-> <<[spans |-> <<RawSpan>>]>>]>>, <<>>),
             RawPageNoBlocks(dl)>> : dl \in DrawingLists(1, 1)}

NoRaw == <<>>

\* ---- the steps of SpecDoc ----

\* main.py:49  classify_blocks annotates the document object in place; it is
\* applied to the parsed document and then to its own result
do_classify_blocks ==
    /\ parsed
    /\ runs < 2
    /\ html_output = NoData
    /\ semantic_data' = classify_blocks(IF runs = 0 THEN layout_data ELSE semantic_data)
    /\ first_labels' = IF runs = 0 THEN semantic_data' ELSE first_labels
    /\ runs' = runs + 1
    /\ UNCHANGED <<raw_pages, parsed, layout_data, html_output, json_output, jobVars>>

\* main.py:54  the pipeline renders the result of its one classification
do_generate_html ==
    /\ runs = 1
    /\ html_output = NoData
    /\ html_output' = generate_html(semantic_data)
    /\ UNCHANGED <<raw_pages, parsed, layout_data, semantic_data, first_labels, runs,
                   json_output, jobVars>>

\* main.py:55
do_generate_json ==
    /\ html_output # NoData
    /\ json_output = NoJson
    /\ json_output' = generate_json(semantic_data)
    /\ UNCHANGED <<raw_pages, parsed, layout_data, semantic_data, first_labels, runs,
                   html_output, jobVars>>

NoFile == [size_mb |-> 0, openable |-> FALSE, page_count |-> 0]

NoRaise == [phase |-> "none", error |-> NoExc]

JobInit ==
    /\ TASK_STATUS = <<>>
    /\ pc = [j \in Jobs |-> "none"]
    /\ upload = [j \in Jobs |-> NoFile]
    /\ results = [j \in Jobs |-> {}]
    /\ started = [j \in Jobs |-> <<>>]
    /\ raised = [j \in Jobs |-> NoRaise]
    /\ response = [code |-> 0, body |-> [status |-> "none"]]

DocIdle ==
    /\ raw_pages = NoRaw
    /\ parsed = FALSE
    /\ layout_data = NoData
    /\ semantic_data = NoData
    /\ first_labels = NoData
    /\ runs = 0
    /\ html_output = NoData
    /\ json_output = NoJson

Init == JobInit /\ DocIdle

Next ==
    \E j \in Jobs :
        \/ \E ct \in ContentTypes, f \in Files : upload_pdf(j, ct, f)
        \/ get_status(j)
        \/ task_begin(j)
        \/ task_validate(j)
        \/ task_parse(j)
        \/ task_analyze(j)
        \/ task_generate(j)
        \/ task_save_html(j)
        \/ task_save_json(j)
        \/ task_save_intermediate(j)
        \/ task_complete(j)

Spec == Init /\ [][Next]_vars

InitDoc ==
    /\ JobInit
    /\ raw_pages = NoRaw
    /\ parsed = TRUE
    /\ layout_data \in Docs
    /\ semantic_data = NoData
    /\ first_labels = NoData
    /\ runs = 0
    /\ html_output = NoData
    /\ json_output = NoJson

NextDoc == do_classify_blocks \/ do_generate_html \/ do_generate_json

SpecDoc == InitDoc /\ [][NextDoc]_vars

\* ---- the steps of SpecRaw ----

\* the file of the job: within the limits
ValidFile == [size_mb |-> 1, openable |-> TRUE, page_count |-> max_pages]

\* main.py:43-46  phase 2 on the raw pages: extract_layout_from_pdf raises,
\* and the except clause fails the job, or it returns layout_data and the
\* step becomes analyzing
task_extract(j) ==
    /\ pc[j] = "parsing"
    /\ ~parsed
    /\ \E save_ok \in BOOLEAN :
          LET r == extract_layout_from_pdf(raw_pages, save_ok)
          IN \/ /\ r.exc # NoExc
                /\ Except(j, "parsing", r.exc)
                /\ UNCHANGED <<started, parsed, layout_data>>
             \/ /\ r.exc = NoExc
                /\ EnterPhase(j, "analyzing", "analyzing")
                /\ parsed' = TRUE
                /\ layout_data' = r.data
                /\ UNCHANGED raised
    /\ UNCHANGED <<upload, results, response, raw_pages, semantic_data, first_labels,
                   runs, html_output, json_output>>

\* job 1 has passed validation and is about to parse the pages of its file
InitRaw ==
    /\ TASK_STATUS = SetRecord(<<>>, 1, ProcessingRecord("parsing"))
    /\ pc = [j \in Jobs |-> IF j = 1 THEN "parsing" ELSE "none"]
    /\ upload = [j \in Jobs |-> IF j = 1 THEN ValidFile ELSE NoFile]
    /\ results = [j \in Jobs |-> {}]
    /\ started = [j \in Jobs |-> IF j = 1 THEN <<"validating", "parsing">> ELSE <<>>]
    /\ raised = [j \in Jobs |-> NoRaise]
    /\ response = [code |-> 200, body |-> [task_id |-> 1, status |-> "queued"]]
    /\ raw_pages \in RawDocs
    /\ parsed = FALSE
    /\ layout_data = NoData
    /\ semantic_data = NoData
    /\ first_labels = NoData
    /\ runs = 0
    /\ html_output = NoData
    /\ json_output = NoJson

NextRaw == task_extract(1) \/ do_classify_blocks \/ do_generate_html \/ do_generate_json

SpecRaw == InitRaw /\ [][NextRaw]_vars

(***************************************************************************)
(*                     THE CLAIMS ABOUT THE PIPELINE                       *)
(***************************************************************************)

StatusOf(ts, j) == IF j \in DOMAIN ts THEN ts[j].status ELSE "not_found"

\* the moves of a status along queued -> processing -> (completed | failed)
StatusMoves ==
    {<<"not_found", "queued">>, <<"queued", "processing">>,
     <<"processing", "completed">>, <<"processing", "failed">>}

Terminal == {"completed", "failed"}

HasLocators(rec) == {"result_html", "result_json"} \cap DOMAIN rec # {}

\* C1: the status of every job's record only moves forward along
\* queued -> processing -> (completed | failed): no step returns it to an
\* earlier value, and a completed or failed record never changes again.
C1_StatusForward ==
    [][\A j \in Jobs :
          /\ \/ StatusOf(TASK_STATUS', j) = StatusOf(TASK_STATUS, j)
             \/ <<StatusOf(TASK_STATUS, j), StatusOf(TASK_STATUS', j)>> \in StatusMoves
          /\ StatusOf(TASK_STATUS, j) \in Terminal => TASK_STATUS'[j] = TASK_STATUS[j]]_vars

\* one job has run to completed and another to failed
C1_Witness ==
    \E j, k \in Jobs :
        /\ StatusOf(TASK_STATUS, j) = "completed"
        /\ StatusOf(TASK_STATUS, k) = "failed"

\* C2: once a phase of a job has raised, the job's record is the failed
\* record with the captured message and without result locators, the task has
\* returned, and the phase that raised is the last one the job started (so
\* no later phase starts and the job never becomes completed).
C2_ExceptionFailsJob ==
    \A j \in Jobs :
        raised[j] # NoRaise =>
            /\ j \in DOMAIN TASK_STATUS
            /\ TASK_STATUS[j] = [status |-> "failed", error |-> raised[j].error]
            /\ ~HasLocators(TASK_STATUS[j])
            /\ pc[j] = "done"
            /\ Last(started[j]) = raised[j].phase

\* a job whose write of the structured export raised after the markup file
\* was written
C2_Witness ==
    \E j \in Jobs :
        /\ raised[j].phase = "save_json"
        /\ results[j] = {"html"}
        /\ TASK_STATUS[j].status = "failed"

\* C3: a job whose document has more pages than the limit (and is otherwise
\* valid) ends failed, with a message that contains the page count and the
\* limit, and with no result locators.
C3_PageLimitMessage ==
    \A j \in DOMAIN TASK_STATUS :
        (/\ upload[j].page_count > max_pages
         /\ upload[j].size_mb <= max_size_mb
         /\ upload[j].openable
         /\ pc[j] = "done"
         /\ raised[j].error \notin EnvErrors)
        => /\ TASK_STATUS[j].status = "failed"
           /\ upload[j].page_count \in Range(TASK_STATUS[j].error.args)
           /\ max_pages \in Range(TASK_STATUS[j].error.args)
           /\ ~HasLocators(TASK_STATUS[j])

\* C4: a completed record has step done and both result locators, both
\* result files of the job are written, and no phase of the job raised.
C4_CompletedHasResults ==
    \A j \in DOMAIN TASK_STATUS :
        TASK_STATUS[j].status = "completed" =>
            /\ TASK_STATUS[j].step = "done"
            /\ TASK_STATUS[j].result_html = [job |-> j, kind |-> "html"]
            /\ TASK_STATUS[j].result_json = [job |-> j, kind |-> "json"]
            /\ {"html", "json"} \subseteq results[j]
            /\ raised[j] = NoRaise

\* a completed job with all three files written
C4_Witness ==
    \E j \in DOMAIN TASK_STATUS :
        /\ TASK_STATUS[j].status = "completed"
        /\ results[j] = {"html", "json", "intermediate"}
        /\ started[j][Len(started[j])] = "completing"

(***************************************************************************)
(*                    THE CLAIMS ABOUT THE DOCUMENT                        *)
(***************************************************************************)

\* the places <<i, k>> of the blocks of a document
BlockPlaces(data) == {<<i, k>> \in (DOMAIN data) \X (1..MaxBlocks) : k \in DOMAIN data[i].blocks}

LabelOf(block) == <<block.label, block.semantic_type>>

\* the page has a span that carries a size, in any of its blocks
PageHasSpan(page) == \E k \in DOMAIN page.blocks : BlockSpans(page.blocks[k]) # <<>>

\* the concatenated span text of the block is empty or whitespace-only
IsBlank(block) ==
    \A n \in DOMAIN BlockSpans(block) :
        \A c \in Range(BlockSpans(block)[n].text) : c \in Whitespace

\* C5 as stated: after classify_blocks every image block on every page is
\* labelled image / image.
C5_ImageAlwaysLabelled ==
    runs >= 1 =>
        \A pl \in BlockPlaces(semantic_data) :
            semantic_data[pl[1]].blocks[pl[2]].type = 1
            => LabelOf(semantic_data[pl[1]].blocks[pl[2]]) = <<"image", "image">>

\* C5, amended: after classify_blocks every image block on every page that
\* has at least one span is labelled image / image, whatever lines and spans
\* the image block itself carries and whatever else is on the page.
C5_ImageLabelledOnPagesWithSpans ==
    runs >= 1 =>
        \A pl \in BlockPlaces(semantic_data) :
            (/\ semantic_data[pl[1]].blocks[pl[2]].type = 1
             /\ PageHasSpan(layout_data[pl[1]]))
            => LabelOf(semantic_data[pl[1]].blocks[pl[2]]) = <<"image", "image">>

\* a classified page holding an image block that carries lines of its own
\* beside a text block
C5_Witness ==
    /\ runs >= 1
    /\ \E pl \in BlockPlaces(semantic_data) :
          LET page == semantic_data[pl[1]]
          IN /\ page.blocks[pl[2]].type = 1
             /\ page.blocks[pl[2]].lines # <<>>
             /\ LabelOf(page.blocks[pl[2]]) = <<"image", "image">>
             /\ \E k \in DOMAIN page.blocks :
                   page.blocks[k].type = 0 /\ page.blocks[k].label \notin {NoLabel, "unknown"}

\* C6: classifying the classified document again leaves every label and
\* semantic_type as the first run assigned it.
C6_ClassifyIdempotent ==
    runs = 2 =>
        /\ Len(semantic_data) = Len(first_labels)
        /\ \A pl \in BlockPlaces(first_labels) :
              LabelOf(semantic_data[pl[1]].blocks[pl[2]])
                  = LabelOf(first_labels[pl[1]].blocks[pl[2]])

\* a document classified twice that holds a heading and a table
C6_Witness ==
    /\ runs = 2
    /\ \E pl \in BlockPlaces(semantic_data) :
          semantic_data[pl[1]].blocks[pl[2]].label = "heading"
    /\ \E pl \in BlockPlaces(semantic_data) :
          semantic_data[pl[1]].blocks[pl[2]].label = "table"

\* the rules in the order main title, section heading, sub-heading,
\* table/metadata, list item, footnote, paragraph
RuleHolds(r, f, st) ==
    CASE r = 1 -> MainTitle(f, st)
      [] r = 2 -> SectionHeading(f, st)
      [] r = 3 -> SubHeading(f, st)
      [] r = 4 -> TableBlock(f, st)
      [] r = 5 -> ListItem(f, st)
      [] r = 6 -> Footnote(f, st)
      [] OTHER -> TRUE

RuleLabels ==
    <<<<"heading", "h1">>, <<"heading", "h2">>, <<"heading", "h3">>, <<"table", "table">>,
      <<"list_item", "li">>, <<"footnote", "small">>, <<"paragraph", "p">>>>

FirstRule(f, st) ==
    CHOOSE r \in 1..7 : RuleHolds(r, f, st) /\ \A q \in 1..(r - 1) : ~RuleHolds(q, f, st)

\* the text blocks with non-empty text on the pages that have spans
RuledPlaces(data) ==
    {pl \in BlockPlaces(data) :
        /\ PageHasSpan(data[pl[1]])
        /\ data[pl[1]].blocks[pl[2]].type # 1
        /\ BlockSpans(data[pl[1]].blocks[pl[2]]) # <<>>
        /\ ~IsBlank(data[pl[1]].blocks[pl[2]])}

\* C7: every text block with non-empty text on a page that has spans gets
\* the label of the first rule, in the order of the cascade, whose condition
\* holds; a block that meets the section-heading and the table/metadata
\* conditions gets heading / h2.
C7_FirstMatchWins ==
    runs >= 1 =>
        \A pl \in RuledPlaces(layout_data) :
            LET page == layout_data[pl[1]]
                st == PageStats(page, PageSpanSizes(page.blocks))
                f == BlockFacts(page.blocks[pl[2]], st)
                got == LabelOf(semantic_data[pl[1]].blocks[pl[2]])
            IN /\ got = RuleLabels[FirstRule(f, st)]
               /\ (SectionHeading(f, st) /\ TableBlock(f, st)) => got = <<"heading", "h2">>

\* a page on which one block meets the main-title and section-heading
\* conditions and is labelled h1, and another meets the table and list-item
\* conditions and is labelled table
C7_Witness ==
    /\ runs >= 1
    /\ \E pl \in RuledPlaces(layout_data), pm \in RuledPlaces(layout_data) :
          LET page == layout_data[pl[1]]
              st == PageStats(page, PageSpanSizes(page.blocks))
              f == BlockFacts(page.blocks[pl[2]], st)
              g == BlockFacts(page.blocks[pm[2]], st)
          IN /\ pm[1] = pl[1]
             /\ MainTitle(f, st) /\ SectionHeading(f, st)
             /\ LabelOf(semantic_data[pl[1]].blocks[pl[2]]) = <<"heading", "h1">>
             /\ TableBlock(g, st) /\ ListItem(g, st)
             /\ LabelOf(semantic_data[pl[1]].blocks[pm[2]]) = <<"table", "table">>

\* the font_sizes list the classification holds for page i of data
RECURSIVE FontSizesAt(_, _, _)
FontSizesAt(pages, i, carried) ==
    IF i = 1 THEN PageFontSizes(Head(pages), carried)
    ELSE FontSizesAt(Tail(pages), i - 1, PageFontSizes(Head(pages), carried))

\* C8: the labels of a page are those the page gets in a document of its
\* own, whatever the other pages hold, and the font sizes behind mode_font
\* and max_font of a page are the sizes of that page's spans alone.
C8_PerPage ==
    runs >= 1 =>
        \A i \in DOMAIN layout_data :
            /\ first_labels[i].blocks = classify_blocks(<<layout_data[i]>>)[1].blocks
            /\ layout_data[i].blocks # <<>>
               => FontSizesAt(layout_data, i, <<>>) = PageSpanSizes(layout_data[i].blocks)
            /\ \A k \in DOMAIN layout_data :
                  layout_data[k].blocks = layout_data[i].blocks
                  => first_labels[k].blocks = first_labels[i].blocks

\* a classified two-page document whose pages have different mode fonts,
\* where the second page's block would be labelled otherwise under the
\* first page's mode font
C8_Witness ==
    /\ runs >= 1
    /\ Len(layout_data) >= 2
    /\ PageHasSpan(layout_data[1]) /\ PageHasSpan(layout_data[2])
    /\ LET fs1 == PageSpanSizes(layout_data[1].blocks)
           fs2 == PageSpanSizes(layout_data[2].blocks)
       IN /\ mode_font(fs1) # mode_font(fs2)
          /\ \E k \in DOMAIN layout_data[2].blocks :
                /\ layout_data[2].blocks[k].type = 0
                /\ BlockSpans(layout_data[2].blocks[k]) # <<>>
                /\ LabelOf(first_labels[2].blocks[k])
                     # LabelOf(ClassifyBlock(layout_data[2].blocks[k],
                                             PageStats(layout_data[2], fs1 \o fs2)))

\* the elements of the markup with the given el
ElementsOf(html, el) == SelectSeq(html, LAMBDA e : e.el = el)

\* all blocks of a document, in order
AllBlocksOf(data) == Flatten([i \in DOMAIN data |-> data[i].blocks])

NonBlankTextBlocks(data) ==
    SelectSeq(AllBlocksOf(data), LAMBDA b : b.type # 1 /\ ~IsBlank(b))

\* the markup holds exactly one text element for each text block that is not
\* blank, in order, so a blank block has no element
BlankBlocksOmitted ==
    LET els == ElementsOf(html_output, "text-block")
        blocks == NonBlankTextBlocks(layout_data)
    IN /\ Len(els) = Len(blocks)
       /\ \A n \in DOMAIN els :
             /\ els[n].text = html_escape(extract_text(blocks[n]))
             /\ els[n].style[1].val = Px(blocks[n].bbox[1], 2)
             /\ els[n].style[2].val = Px(blocks[n].bbox[2], 2)

\* C9 as stated: every text block whose text is empty or whitespace-only has
\* no element in the markup and holds a label and semantic_type in the export.
C9_BlankBlocksLabelled ==
    json_output # NoJson =>
        /\ BlankBlocksOmitted
        /\ \A pl \in BlockPlaces(layout_data) :
              (/\ layout_data[pl[1]].blocks[pl[2]].type # 1
               /\ IsBlank(layout_data[pl[1]].blocks[pl[2]]))
              => /\ json_output.pages[pl[1]].blocks[pl[2]].label # NoLabel
                 /\ json_output.pages[pl[1]].blocks[pl[2]].semantic_type # NoLabel

\* C9, amended: every text block whose text is empty or whitespace-only has
\* no element in the markup, and on a page that has at least one span it
\* holds a label and semantic_type in the export.
C9_BlankBlocksLabelledOnPagesWithSpans ==
    json_output # NoJson =>
        /\ BlankBlocksOmitted
        /\ \A pl \in BlockPlaces(layout_data) :
              (/\ layout_data[pl[1]].blocks[pl[2]].type # 1
               /\ IsBlank(layout_data[pl[1]].blocks[pl[2]])
               /\ PageHasSpan(layout_data[pl[1]]))
              => /\ json_output.pages[pl[1]].blocks[pl[2]].label # NoLabel
                 /\ json_output.pages[pl[1]].blocks[pl[2]].semantic_type # NoLabel

\* an exported page with a block of whitespace text, labelled, beside a text
\* block that has its element in the markup
C9_Witness ==
    /\ json_output # NoJson
    /\ Len(ElementsOf(html_output, "text-block")) = 1
    /\ \E pl \in BlockPlaces(layout_data) :
          /\ layout_data[pl[1]].blocks[pl[2]].type = 0
          /\ BlockSpans(layout_data[pl[1]].blocks[pl[2]]) # <<>>
          /\ IsBlank(layout_data[pl[1]].blocks[pl[2]])
          /\ Len(layout_data[pl[1]].blocks) = 2
          /\ json_output.pages[pl[1]].blocks[pl[2]].label = "unknown"

HeightsOf(style) == SelectSeq(style, LAMBDA d : d.prop = "height")

ImageBlocksWithSrc(data) ==
    SelectSeq(AllBlocksOf(data), LAMBDA b : b.type = 1 /\ b.src # "")

\* v is (y1 - y0) * 96 / 72 of the bounding box, in hundredths of a pixel
IsScaledHeight(v, bbox) ==
    2 * Abs(CSS_SCALE_DEN * v - 100 * CSS_SCALE_NUM * (bbox[4] - bbox[2])) <= CSS_SCALE_DEN

\* C10: no element of a text block carries a height, and the element of
\* every image block carries one height, (y1 - y0) * S of its bounding box.
C10_HeightOnlyOnImages ==
    html_output # NoData =>
        /\ \A n \in DOMAIN html_output :
              html_output[n].el = "text-block" => HeightsOf(html_output[n].style) = <<>>
        /\ LET imgs == ElementsOf(html_output, "img")
               blocks == ImageBlocksWithSrc(semantic_data)
           IN /\ Len(imgs) = Len(blocks)
              /\ \A n \in DOMAIN imgs :
                    /\ Len(HeightsOf(imgs[n].style)) = 1
                    /\ IsScaledHeight(HeightsOf(imgs[n].style)[1].val, blocks[n].bbox)

\* a markup with an image element and a text element
C10_Witness ==
    /\ html_output # NoData
    /\ \E n \in DOMAIN html_output :
          /\ html_output[n].el = "img"
          /\ HeightsOf(html_output[n].style) # <<>>
    /\ \E n \in DOMAIN html_output : html_output[n].el = "text-block"

\* the blocks that have an element in the markup, in order: the image blocks
\* with a src and the text blocks that are not blank
RenderedBlocks(data) ==
    SelectSeq(AllBlocksOf(data),
              LAMBDA b : IF b.type = 1 THEN b.src # "" ELSE ~IsBlank(b))

BlockElementsOf(html) == SelectSeq(html, LAMBDA e : e.el \in {"img", "text-block"})

DeclsOf(style, prop) == SelectSeq(style, LAMBDA d : d.prop = prop)

\* v is pts * 96 / 72 to two decimals, in hundredths of a pixel
IsScaled(v, pts) ==
    2 * Abs(CSS_SCALE_DEN * v - 100 * CSS_SCALE_NUM * pts) <= CSS_SCALE_DEN

\* the style holds exactly one declaration of prop, and it is pts * S
PlacedAt(style, prop, pts) ==
    /\ Len(DeclsOf(style, prop)) = 1
    /\ IsScaled(DeclsOf(style, prop)[1].val, pts)

\* C11: every rendered block is positioned by its bounding box scaled by
\* S = 96/72: left = x0*S, top = y0*S, width = (x1-x0)*S; for the bounding
\* box [72,72,522,100] the style is left 96.00px, top 96.00px, width 600.00px.
C11_ScaledPosition ==
    html_output # NoData =>
        LET els == BlockElementsOf(html_output)
            blocks == RenderedBlocks(semantic_data)
        IN /\ Len(els) = Len(blocks)
           /\ \A n \in DOMAIN els :
                 /\ PlacedAt(els[n].style, "left", blocks[n].bbox[1])
                 /\ PlacedAt(els[n].style, "top", blocks[n].bbox[2])
                 /\ PlacedAt(els[n].style, "width", blocks[n].bbox[3] - blocks[n].bbox[1])
                 /\ blocks[n].bbox = <<72, 72, 522, 100>> =>
                       /\ DeclsOf(els[n].style, "left")[1].val = 9600
                       /\ DeclsOf(els[n].style, "top")[1].val = 9600
                       /\ DeclsOf(els[n].style, "width")[1].val = 60000

\* a markup with the element of a text block and of an image block at
\* [72,72,522,100], and the element of a block whose scaled position is not a
\* whole number of hundredths
C11_Witness ==
    /\ html_output # NoData
    /\ LET els == BlockElementsOf(html_output)
           blocks == RenderedBlocks(semantic_data)
       IN /\ Len(els) = 2
          /\ Len(blocks) = 2
          /\ \E n \in DOMAIN els :
                /\ blocks[n].bbox = <<72, 72, 522, 100>>
                /\ els[n].style[1] = Decl("left", 9600)
          /\ \E n \in DOMAIN els :
                /\ blocks[n].bbox = BBoxSide
                /\ DeclsOf(els[n].style, "width")[1].val = 26667

(***************************************************************************)
(*            THE CLAIMS ABOUT THE DRAWINGS AND THE RAW PAGES              *)
(***************************************************************************)

\* a drawing item of a kind the renderer knows
Recognized(item) == item # <<>> /\ item[1] \in {"l", "re", "c"}

RecognizedItems(d) == SelectSeq(d.items, Recognized)

PagesWithDrawings(data) == SelectSeq(data, LAMBDA page : page.drawings # <<>>)

\* the drawings of a page that have at least one recognized item, in order
DrawnDrawings(page) == SelectSeq(page.drawings, LAMBDA d : RecognizedItems(d) # <<>>)

MovesOf(path) == SelectSeq(path.d, LAMBDA c : c.op = "M")

At(x, y) == [x |-> x, y |-> y]

\* M 10 10 L 50 10 L 50 30 L 10 30 Z
RectPath ==
    <<[op |-> "M", at |-> <<At(10, 10)>>], [op |-> "L", at |-> <<At(50, 10)>>],
      [op |-> "L", at |-> <<At(50, 30)>>], [op |-> "L", at |-> <<At(10, 30)>>],
      [op |-> "Z", at |-> <<>>]>>

OneRect == <<<<"re", [x0 |-> 10, y0 |-> 10, x1 |-> 50, y1 |-> 30]>>>>

\* C12: for every page with drawings, the vector overlay holds exactly one
\* path per drawing that has at least one recognized item (line, rect or
\* curve), in order, and none for a drawing without; the path of a drawing
\* with the single Rect item {x0:10,y0:10,x1:50,y1:30} is the closed
\* four-point polygon through its corners.
C12_OnePathPerDrawing ==
    html_output # NoData =>
        LET svgs == ElementsOf(html_output, "svg")
            pages == PagesWithDrawings(semantic_data)
        IN /\ Len(svgs) = Len(pages)
           /\ \A n \in DOMAIN svgs :
                 LET ds == DrawnDrawings(pages[n])
                 IN /\ Len(svgs[n].paths) = Len(ds)
                    /\ \A k \in DOMAIN ds :
                          /\ Len(MovesOf(svgs[n].paths[k])) = Len(RecognizedItems(ds[k]))
                          /\ svgs[n].paths[k].stroke_width = ds[k].width
                          /\ ds[k].items = OneRect => svgs[n].paths[k].d = RectPath

\* an overlay of one path for a page of two drawings, the one-Rect drawing
\* and a drawing whose only item is of an unknown kind
C12_Witness ==
    /\ html_output # NoData
    /\ \E i \in DOMAIN raw_pages :
          /\ Len(raw_pages[i].drawings) = 2
          /\ \E k \in 1..2 : Get(raw_pages[i].drawings[k], "items", <<>>)
                                = <<<<"qu", PSequence(<<10, 10, 50, 30>>)>>>>
          /\ \E k \in 1..2 : semantic_data[i].drawings[k].items = OneRect
    /\ \E n \in DOMAIN html_output :
          /\ html_output[n].el = "svg"
          /\ Len(html_output[n].paths) = 1
          /\ html_output[n].paths[1].d = RectPath

\* C13 as stated: normalisation of the raw pages never raises on a malformed
\* primitive: once the parse phase of the job is over, the job has not
\* failed, it has entered the next phase, and layout_data holds one page
\* for each raw page.
C13_NormalizationNeverRaises ==
    pc[1] # "parsing" =>
        /\ TASK_STATUS[1].status # "failed"
        /\ raised[1] = NoRaise
        /\ parsed
        /\ "analyzing" \in Range(started[1])
        /\ Len(layout_data) = Len(raw_pages)

(***************************************************************************)
(*                  THE CLAIM ABOUT CONCURRENT JOBS                        *)
(***************************************************************************)

\* what a poll reads for job j
RecordOf(ts, j) == IF j \in DOMAIN ts THEN ts[j] ELSE [status |-> "not_found"]

\* the record job j holds at position pos of process_pdf_task when nothing
\* but its own run has written it; exc is the exception it caught, if any
OwnRecord(j, pos, exc) ==
    CASE pos = "none" -> [status |-> "not_found"]
      [] pos = "queued" -> QueuedRecord
      [] pos \in {"validating", "parsing", "analyzing"} -> ProcessingRecord(pos)
      [] pos \in {"generating", "save_html", "save_json", "save_intermediate", "completing"}
           -> ProcessingRecord("generating")
      [] pos = "done" -> IF exc = NoRaise THEN CompletedRecord(j) ELSE FailedRecord(exc.error)

\* C14: under any interleaving of jobs and polls, every step of a job leaves
\* the record of every other job unchanged, a poll changes no record, and the
\* record of a job is at each step the one its own run alone gives it, so
\* the sequence of its records is the same as when it runs alone.
C14_OwnRecordOnly ==
    [][/\ \A a \in Jobs :
            /\ pc'[a] # pc[a] =>
                  \A b \in Jobs \ {a} : RecordOf(TASK_STATUS', b) = RecordOf(TASK_STATUS, b)
            /\ RecordOf(TASK_STATUS', a) = OwnRecord(a, pc'[a], raised'[a])
       /\ pc' = pc => TASK_STATUS' = TASK_STATUS]_vars

\* two jobs in the middle of their runs, at different phases, while a poll
\* has read the record of one of them
C14_Witness ==
    /\ pc[1] = "analyzing"
    /\ pc[2] = "generating"
    /\ TASK_STATUS[1] = ProcessingRecord("analyzing")
    /\ TASK_STATUS[2] = ProcessingRecord("generating")
    /\ response.body = TASK_STATUS[2]

=============================================================================
